---------------------------- MODULE Spec2Model ----------------------------
(***************************************************************************)
(* Model of seller.py: synchronisation of a distributor's stock file with  *)
(* a marketplace seller account.                                          *)
(*                                                                         *)
(* Python strings are sequences of one-character strings, so that          *)
(* str(), int(), str.split and re.sub are computed character by character. *)
(* Cyrillic letters of the distributor's price text are written with the   *)
(* Latin letters r, u, b: they are non-digit characters in both alphabets. *)
(* A Python value that may be an int or a str (a spreadsheet cell) is a    *)
(* record [t, n, s]: t is its type, n its value when t = "int", s its      *)
(* characters when t = "str".                                              *)
(***************************************************************************)
EXTENDS Integers, Sequences, FiniteSets, TLC

VARIABLES
    entry,           \* the function that was called
    pc,              \* position of the call
    raised,          \* the exception that left the call ("" when none)
    catalog,         \* the marketplace's listings (their offer_id), in listing order
    ostatki,         \* the records of the distributor's published file
    watch_remnants,  \* the distributor's records the program holds
    offer_ids,       \* the caller's list of offer identifiers (mutable)
    stocks,          \* the list built by create_stocks
    prices,          \* the list built by create_prices
    lst,             \* divide: the list
    n,               \* divide: the chunk size
    chunks,          \* list(divide(...)): the chunks yielded
    price,           \* price_conversion: the argument
    ret,             \* price_conversion: the returned string
    k,               \* number of chunks of the running loop already taken
    sent_stocks,     \* payloads of the update_stocks requests issued, in order
    sent_prices,     \* payloads of the update_price requests issued, in order
    printed,         \* main: the handlers that caught and printed an exception
    not_empty,       \* upload_stocks: the entries returned with a non-zero stock
    last_id,         \* get_offer_ids: the cursor
    product_list,    \* get_offer_ids: the accumulated items
    requests,        \* last_id of every get_product_list request issued, in order
    replies          \* last_id of every page received, in order

vars == <<entry, pc, raised, catalog, ostatki, watch_remnants, offer_ids, stocks,
          prices, lst, n, chunks, price, ret, k, sent_stocks, sent_prices, printed,
          not_empty, last_id, product_list, requests, replies>>

inputVars == <<entry, catalog, ostatki>>
divideArgs == <<lst, n>>
syncVars == <<k, sent_stocks, sent_prices, printed, not_empty>>
fetchVars == <<last_id, product_list, requests, replies>>

(***************************************************************************)
(* Bounds of the inputs.                                                   *)
(***************************************************************************)
MaxRecs == 3          \* records in the distributor's file
MaxLen == 5           \* length of a list given to divide
MaxN == 3             \* |n| of a chunk size given to divide
MaxPriceLen == 4      \* length of an enumerated price string
MaxFullChunks == 2    \* full stock chunks of a catalog in a sync run
MaxSyncRecs == 2      \* records in the distributor's file in a sync run
MaxCatalog == 5       \* listings of the catalog that get_offer_ids pages through
MaxPage == 3          \* items of one page the marketplace returns

(***************************************************************************)
(* Python values and built-ins.                                            *)
(***************************************************************************)
PyInt(i) == [t |-> "int", n |-> i, s |-> <<>>]
PyStr(chars) == [t |-> "str", n |-> 0, s |-> chars]

Range(seq) == {seq[i] : i \in 1..Len(seq)}
Min(a, b) == IF a < b THEN a ELSE b
Digits == <<"0", "1", "2", "3", "4", "5", "6", "7", "8", "9">>
IsDigit(c) == c \in Range(Digits)
DigitValue(c) == (CHOOSE d \in 1..10 : Digits[d] = c) - 1

RECURSIVE StrNat(_)
StrNat(i) == IF i < 10 THEN <<Digits[i + 1]>>
             ELSE StrNat(i \div 10) \o <<Digits[(i % 10) + 1]>>

\* str(v): the decimal digits of an int, a str itself
str(v) == IF v.t = "int"
          THEN (IF v.n < 0 THEN <<"-">> \o StrNat(-v.n) ELSE StrNat(v.n))
          ELSE v.s

RECURSIVE StripLeft(_)
StripLeft(chars) == IF chars # <<>> /\ Head(chars) = " " THEN StripLeft(Tail(chars))
                    ELSE chars
RECURSIVE StripRight(_)
StripRight(chars) ==
    IF chars # <<>> /\ chars[Len(chars)] = " "
    THEN StripRight(SubSeq(chars, 1, Len(chars) - 1))
    ELSE chars

RECURSIVE NatOf(_)
NatOf(chars) == IF chars = <<>> THEN 0
                ELSE 10 * NatOf(SubSeq(chars, 1, Len(chars) - 1))
                     + DigitValue(chars[Len(chars)])

\* int(v): an int is itself; a str is stripped of blanks, then an optional sign and
\* one or more decimal digits are read, and anything else raises ValueError
int(v) ==
    IF v.t = "int" THEN [raised |-> "", value |-> v.n]
    ELSE LET body == StripRight(StripLeft(v.s))
             signed == body # <<>> /\ Head(body) \in {"-", "+"}
             digits == IF signed THEN Tail(body) ELSE body
         IN  IF digits # <<>> /\ \A i \in 1..Len(digits) : IsDigit(digits[i])
             THEN [raised |-> "",
                   value |-> IF signed /\ Head(body) = "-" THEN -NatOf(digits)
                             ELSE NatOf(digits)]
             ELSE [raised |-> "ValueError", value |-> 0]

\* x in list
In(x, list) == \E i \in 1..Len(list) : list[i] = x

\* a remove() that was left out
RemoveNone(list, x) == list

\* list.remove(x): drops the first occurrence of x
Remove(list, x) ==
    LET first == CHOOSE i \in 1..Len(list) :
                     list[i] = x /\ \A j \in 1..(i - 1) : list[j] # x
    IN  SubSeq(list, 1, first - 1) \o SubSeq(list, first + 1, Len(list))

\* list[i:j] for 0 <= i <= j
Slice(list, i, j) == SubSeq(list, i + 1, Min(j, Len(list)))

(***************************************************************************)
(* price_conversion                                                        *)
(***************************************************************************)
RECURSIVE SplitFrom(_, _, _, _)
SplitFrom(chars, sep, i, cur) ==
    IF i > Len(chars) THEN <<cur>>
    ELSE IF chars[i] = sep THEN <<cur>> \o SplitFrom(chars, sep, i + 1, <<>>)
    ELSE SplitFrom(chars, sep, i + 1, Append(cur, chars[i]))

\* chars.split(sep) for a one-character separator
split(chars, sep) == SplitFrom(chars, sep, 1, <<>>)

\* re.sub("[^0-9]", "", chars)
RECURSIVE sub_non_digits(_)
sub_non_digits(chars) ==
    IF chars = <<>> THEN <<>>
    ELSE (IF IsDigit(Head(chars)) THEN <<Head(chars)>> ELSE <<>>)
         \o sub_non_digits(Tail(chars))

\* the conversion without the split: the digits of the whole string
price_conversion_all_parts(p) ==
    IF p.t # "str" THEN [raised |-> "AttributeError", value |-> <<>>]
    ELSE [raised |-> "", value |-> sub_non_digits(p.s)]

\* line 296: re.sub("[^0-9]", "", price.split(".")[0]); a value that is no str has
\* no split
price_conversion(p) ==
    IF p.t # "str" THEN [raised |-> "AttributeError", value |-> <<>>]
    ELSE [raised |-> "", value |-> sub_non_digits(split(p.s, ".")[1])]

(***************************************************************************)
(* divide                                                                  *)
(***************************************************************************)
\* i in range(0, stop, step), for i = 0, step, 2*step, ...
InRange(i, stop, step) == IF step > 0 THEN i < stop ELSE i > stop

RECURSIVE DivideFrom(_, _, _)
DivideFrom(list, size, i) ==
    IF InRange(i, Len(list), size)
    THEN <<Slice(list, i, i + size)>> \o DivideFrom(list, size, i + size)
    ELSE <<>>

\* divide over range(0, len(lst) - n + 1, n): a shorter last chunk is dropped
RECURSIVE DivideShortFrom(_, _, _)
DivideShortFrom(list, size, i) ==
    IF InRange(i + size, Len(list) + 1, size)
    THEN <<Slice(list, i, i + size)>> \o DivideShortFrom(list, size, i + size)
    ELSE <<>>
divide_drop_tail(list, size) ==
    IF size = 0 THEN [raised |-> "ValueError", chunks |-> <<>>]
    ELSE [raised |-> "", chunks |-> DivideShortFrom(list, size, 0)]

\* list(divide(list, size)): range() raises ValueError for a step of zero
divide(list, size) ==
    IF size = 0 THEN [raised |-> "ValueError", chunks |-> <<>>]
    ELSE [raised |-> "", chunks |-> DivideFrom(list, size, 0)]

(***************************************************************************)
(* create_stocks                                                           *)
(***************************************************************************)
\* the stock with "1" read as one unit
stock_of_literal(quantity) ==
    LET count == str(quantity)
    IN  IF count = <<">", "1", "0">> THEN [raised |-> "", value |-> 100]
        ELSE int(quantity)

\* lines 204-210: the stock of a record from its raw quantity
stock_of(quantity) ==
    LET count == str(quantity)
    IN  IF count = <<">", "1", "0">> THEN [raised |-> "", value |-> 100]
        ELSE IF count = <<"1">> THEN [raised |-> "", value |-> 0]
        ELSE int(quantity)

\* lines 202-212: the loop over the records, from record i on
RECURSIVE StocksLoop(_, _, _, _)
StocksLoop(remnants, i, acc, ids) ==
    IF i > Len(remnants) THEN [raised |-> "", stocks |-> acc, offer_ids |-> ids]
    ELSE LET watch == remnants[i]
             code == str(watch.Code)
         IN  IF In(code, ids)
             THEN LET stock == stock_of(watch.Quantity)
                  IN  IF stock.raised # ""
                      THEN [raised |-> stock.raised, stocks |-> acc, offer_ids |-> ids]
                      ELSE StocksLoop(remnants, i + 1,
                                      Append(acc, [offer_id |-> code,
                                                   stock |-> stock.value]),
                                      Remove(ids, code))
             ELSE StocksLoop(remnants, i + 1, acc, ids)

\* create_stocks(remnants, ids): the list returned and the caller's list as the
\* call leaves it
create_stocks(remnants, ids) ==
    LET loop == StocksLoop(remnants, 1, <<>>, ids)
    IN  IF loop.raised # "" THEN loop
        ELSE [raised |-> "",
              stocks |-> loop.stocks
                         \o [i \in 1..Len(loop.offer_ids) |->
                                [offer_id |-> loop.offer_ids[i], stock |-> 0]],
              offer_ids |-> loop.offer_ids]

(***************************************************************************)
(* create_prices                                                           *)
(***************************************************************************)
RECURSIVE PricesLoop(_, _, _, _)
PricesLoop(remnants, i, acc, ids) ==
    IF i > Len(remnants) THEN [raised |-> "", prices |-> acc, offer_ids |-> ids]
    ELSE LET watch == remnants[i]
             code == str(watch.Code)
         IN  IF In(code, ids)
             THEN LET converted == price_conversion(watch.Price)
                  IN  IF converted.raised # ""
                      THEN [raised |-> converted.raised, prices |-> acc,
                            offer_ids |-> ids]
                      ELSE PricesLoop(remnants, i + 1,
                                      Append(acc,
                                             [auto_action_enabled |-> "UNKNOWN",
                                              currency_code |-> "RUB",
                                              offer_id |-> code,
                                              old_price |-> "0",
                                              price |-> converted.value]),
                                      ids)
             ELSE PricesLoop(remnants, i + 1, acc, ids)

\* create_prices taking each matched identifier out of the list, as create_stocks does
RECURSIVE PricesLoopRemoving(_, _, _, _)
PricesLoopRemoving(remnants, i, acc, ids) ==
    IF i > Len(remnants) THEN [raised |-> "", prices |-> acc, offer_ids |-> ids]
    ELSE LET watch == remnants[i]
             code == str(watch.Code)
         IN  IF In(code, ids)
             THEN PricesLoopRemoving(remnants, i + 1,
                                     Append(acc,
                                            [auto_action_enabled |-> "UNKNOWN",
                                             currency_code |-> "RUB",
                                             offer_id |-> code,
                                             old_price |-> "0",
                                             price |-> price_conversion(watch.Price).value]),
                                     Remove(ids, code))
             ELSE PricesLoopRemoving(remnants, i + 1, acc, ids)
create_prices_removing(remnants, ids) == PricesLoopRemoving(remnants, 1, <<>>, ids)

\* create_prices(remnants, ids): the list returned and the caller's list as the call
\* leaves it
create_prices(remnants, ids) == PricesLoop(remnants, 1, <<>>, ids)


(***************************************************************************)
(* Inputs                                                                  *)
(***************************************************************************)
SeqsUpTo(S, m) == UNION {[1..j -> S] : j \in 0..m}

\* offer identifiers of the marketplace, and the lists of distinct ones
OfferUniverse == {<<"1">>, <<"2">>, <<"A">>}
Catalogs ==
    {c \in SeqsUpTo(OfferUniverse, Cardinality(OfferUniverse)) :
        \A i, j \in 1..Len(c) : i # j => c[i] # c[j]}

\* spreadsheet cells: codes are numbers or text, quantities and prices are text
Codes == {PyInt(1), PyInt(2), PyStr(<<"A">>)}
Quantities == {PyStr(<<">", "1", "0">>), PyStr(<<"1">>), PyStr(<<"5">>),
               PyStr(<<"5", "0", "0">>)}
Price6300 == PyStr(<<"6", "'", "3", "0", "0", ".", "5", "0", " ", "r", "u", "b", ".">>)
Price13899 ==
    PyStr(<<"1", "3", "'", "8", "9", "9", ".", "9", "9", " ", "r", "u", "b", ".">>)
Price5990 == PyStr(<<"5", "'", "9", "9", "0", ".", "0", "0", " ", "r", "u", "b", ".">>)
PriceDots ==
    PyStr(<<"1", ".", "2", "3", "4", ".", "5", "6", "7", " ", "r", "u", "b", ".">>)
PriceAlphabet == {"1", "2", ".", "'", "r"}
PriceArgs ==
    {PyStr(chars) : chars \in SeqsUpTo(PriceAlphabet, MaxPriceLen)}
    \cup {Price6300, Price13899, Price5990, PriceDots, PyInt(6300)}

StockRecords == [Code : Codes, Quantity : Quantities, Price : {Price6300}]
PriceRecords == [Code : Codes, Quantity : {PyStr(<<"5">>)},
                 Price : {Price6300, PriceDots, PyStr(<<"r", "u", "b">>)}]

NoReconcile ==
    /\ catalog = <<>> /\ ostatki = <<>> /\ watch_remnants = <<>> /\ offer_ids = <<>>
    /\ stocks = <<>> /\ prices = <<>>
NoDivide == lst = <<>> /\ n = 1
NoPrice == price = PyStr(<<>>) /\ ret = <<>>
NoSync ==
    /\ k = 0 /\ sent_stocks = <<>> /\ sent_prices = <<>> /\ printed = <<>>
    /\ not_empty = <<>>
NoFetch == last_id = <<>> /\ product_list = <<>> /\ requests = <<>> /\ replies = <<>>

(***************************************************************************)
(* The functions of the module, each called once on inputs drawn from the  *)
(* sets above.                                                             *)
(***************************************************************************)
Init ==
    /\ pc = "call" /\ raised = "" /\ chunks = <<>>
    /\ NoSync /\ NoFetch
    /\ \/ /\ entry = "divide"
          /\ lst \in SeqsUpTo({"a", "b"}, MaxLen) /\ n \in (-MaxN)..MaxN
          /\ NoReconcile /\ NoPrice
       \/ /\ entry = "price_conversion"
          /\ price \in PriceArgs /\ ret = <<>>
          /\ NoReconcile /\ NoDivide
       \/ /\ entry = "create_stocks"
          /\ catalog \in Catalogs /\ offer_ids = catalog
          /\ ostatki \in SeqsUpTo(StockRecords, MaxRecs) /\ watch_remnants = ostatki
          /\ stocks = <<>> /\ prices = <<>>
          /\ NoDivide /\ NoPrice
       \/ /\ entry = "create_prices"
          /\ catalog \in Catalogs /\ offer_ids = catalog
          /\ ostatki \in SeqsUpTo(PriceRecords, MaxRecs) /\ watch_remnants = ostatki
          /\ stocks = <<>> /\ prices = <<>>
          /\ NoDivide /\ NoPrice

CallDivide ==
    /\ entry = "divide" /\ pc = "call"
    /\ LET r == divide(lst, n)
       IN  chunks' = r.chunks /\ raised' = r.raised
    /\ pc' = "done"
    /\ UNCHANGED <<inputVars, watch_remnants, offer_ids, stocks, prices, divideArgs,
                   price, ret, syncVars, fetchVars>>

CallPriceConversion ==
    /\ entry = "price_conversion" /\ pc = "call"
    /\ LET r == price_conversion(price)
       IN  ret' = r.value /\ raised' = r.raised
    /\ pc' = "done"
    /\ UNCHANGED <<inputVars, watch_remnants, offer_ids, stocks, prices, divideArgs,
                   chunks, price, syncVars, fetchVars>>

CallCreateStocks ==
    /\ entry = "create_stocks" /\ pc = "call"
    /\ LET r == create_stocks(watch_remnants, offer_ids)
       IN  stocks' = r.stocks /\ offer_ids' = r.offer_ids /\ raised' = r.raised
    /\ pc' = "done"
    /\ UNCHANGED <<inputVars, watch_remnants, prices, divideArgs, chunks, price, ret,
                   syncVars, fetchVars>>

CallCreatePrices ==
    /\ entry = "create_prices" /\ pc = "call"
    /\ LET r == create_prices(watch_remnants, offer_ids)
       IN  prices' = r.prices /\ offer_ids' = r.offer_ids /\ raised' = r.raised
    /\ pc' = "done"
    /\ UNCHANGED <<inputVars, watch_remnants, stocks, divideArgs, chunks, price, ret,
                   syncVars, fetchVars>>

Next == CallDivide \/ CallPriceConversion \/ CallCreateStocks \/ CallCreatePrices

Spec == Init /\ [][Next]_vars

Returned(f) == entry = f /\ pc = "done" /\ raised = ""


(***************************************************************************)
(* upload_stocks, upload_prices and main: a sync run against a catalog of  *)
(* listings 1, 2, ..., N.  get_offer_ids is one step here; its pages are   *)
(* the steps of SpecFetch below.                                           *)
(***************************************************************************)
StockChunk == 100
PriceChunkUpload == 1000
PriceChunkMain == 900

Remainders == {0, 1, 50, 99}
CatalogSizes == {q * StockChunk + r : q \in 0..MaxFullChunks, r \in Remainders}
CatalogOf(size) == [i \in 1..size |-> StrNat(i)]

SyncRecords == [Code : {PyInt(1), PyStr(<<"A">>)},
                Quantity : {PyStr(<<"5">>), PyStr(<<"x">>)},
                Price : {Price6300}]

\* requests' exceptions: raise_for_status, a lost connection, a read timeout
TransportErrors == {"HTTPError", "ConnectionError", "ReadTimeout"}

InitSync ==
    /\ entry \in {"main", "upload_stocks", "upload_prices"}
    /\ pc = "get_offer_ids" /\ raised = ""
    /\ catalog \in {CatalogOf(size) : size \in CatalogSizes}
    /\ ostatki \in SeqsUpTo(SyncRecords, MaxSyncRecs)
    /\ watch_remnants = (IF entry = "main" THEN <<>> ELSE ostatki)
    /\ offer_ids = <<>> /\ stocks = <<>> /\ prices = <<>> /\ chunks = <<>>
    /\ NoSync /\ NoDivide /\ NoPrice /\ NoFetch

\* lines 406-411: the handler of main that catches exception e
MainHandler(e) ==
    CASE e = "ReadTimeout" -> "timeout"
      [] e = "ConnectionError" -> "connection"
      [] OTHER -> "ERROR_2"

\* exception e leaves the running statement: main catches and prints it, the upload
\* functions let it through
Raises(e) ==
    /\ pc' = "done"
    /\ raised' = (IF entry = "main" THEN "" ELSE e)
    /\ printed' = (IF entry = "main" THEN Append(printed, MainHandler(e)) ELSE printed)

\* lines 354, 383, 396
GetOfferIdsReturns ==
    /\ pc = "get_offer_ids"
    /\ offer_ids' = catalog
    /\ pc' = (CASE entry = "main" -> "download_stock"
                [] entry = "upload_stocks" -> "create_stocks"
                [] OTHER -> "create_prices")
    /\ UNCHANGED <<inputVars, raised, watch_remnants, stocks, prices, divideArgs, chunks,
                   price, ret, syncVars, fetchVars>>

GetOfferIdsRaises ==
    /\ pc = "get_offer_ids"
    /\ \E e \in TransportErrors : Raises(e)
    /\ UNCHANGED <<inputVars, watch_remnants, offer_ids, stocks, prices, divideArgs,
                   chunks, price, ret, k, sent_stocks, sent_prices, not_empty, fetchVars>>

\* line 397
DownloadStockReturns ==
    /\ pc = "download_stock"
    /\ watch_remnants' = ostatki
    /\ pc' = "create_stocks"
    /\ UNCHANGED <<inputVars, raised, offer_ids, stocks, prices, divideArgs, chunks,
                   price, ret, syncVars, fetchVars>>

DownloadStockRaises ==
    /\ pc = "download_stock"
    /\ \E e \in TransportErrors : Raises(e)
    /\ UNCHANGED <<inputVars, watch_remnants, offer_ids, stocks, prices, divideArgs,
                   chunks, price, ret, k, sent_stocks, sent_prices, not_empty, fetchVars>>

\* lines 384, 399: create_stocks works on the caller's own list
SyncCreateStocks ==
    /\ pc = "create_stocks"
    /\ LET r == create_stocks(watch_remnants, offer_ids)
       IN  /\ offer_ids' = r.offer_ids
           /\ IF r.raised # ""
              THEN Raises(r.raised) /\ stocks' = stocks
              ELSE /\ stocks' = r.stocks /\ pc' = "divide_stocks"
                   /\ UNCHANGED <<raised, printed>>
    /\ UNCHANGED <<inputVars, watch_remnants, prices, divideArgs, chunks, price, ret, k,
                   sent_stocks, sent_prices, not_empty, fetchVars>>

\* the stocks divided with the chunk size of main's prices
SyncDivideStocksBy900 ==
    /\ pc = "divide_stocks"
    /\ chunks' = divide(stocks, PriceChunkMain).chunks
    /\ k' = 0
    /\ pc' = "update_stocks"
    /\ UNCHANGED <<inputVars, raised, watch_remnants, offer_ids, stocks, prices,
                   divideArgs, price, ret, sent_stocks, sent_prices, printed, not_empty,
                   fetchVars>>

\* lines 385, 400: list(divide(stocks, 100))
SyncDivideStocks ==
    /\ pc = "divide_stocks"
    /\ chunks' = divide(stocks, StockChunk).chunks
    /\ k' = 0
    /\ pc' = "update_stocks"
    /\ UNCHANGED <<inputVars, raised, watch_remnants, offer_ids, stocks, prices,
                   divideArgs, price, ret, sent_stocks, sent_prices, printed, not_empty,
                   fetchVars>>

\* lines 386, 401: the next chunk is sent and answered
UpdateStocksReturns ==
    /\ pc = "update_stocks" /\ k < Len(chunks)
    /\ sent_stocks' = Append(sent_stocks, chunks[k + 1])
    /\ k' = k + 1
    /\ UNCHANGED <<inputVars, pc, raised, watch_remnants, offer_ids, stocks, prices,
                   divideArgs, chunks, price, ret, sent_prices, printed, not_empty,
                   fetchVars>>

\* lines 386, 401: the next chunk is sent and the request fails
UpdateStocksRaises ==
    /\ pc = "update_stocks" /\ k < Len(chunks)
    /\ sent_stocks' = Append(sent_stocks, chunks[k + 1])
    /\ \E e \in TransportErrors : Raises(e)
    /\ UNCHANGED <<inputVars, watch_remnants, offer_ids, stocks, prices, divideArgs,
                   chunks, price, ret, k, sent_prices, not_empty, fetchVars>>

\* lines 387-388 (upload_stocks returns), 402 (main goes on to the prices)
StocksLoopEnds ==
    /\ pc = "update_stocks" /\ k = Len(chunks)
    /\ IF entry = "main"
       THEN pc' = "create_prices" /\ not_empty' = not_empty
       ELSE /\ pc' = "done"
            /\ not_empty' = SelectSeq(stocks, LAMBDA stock : stock.stock # 0)
    /\ UNCHANGED <<inputVars, raised, watch_remnants, offer_ids, stocks, prices,
                   divideArgs, chunks, price, ret, k, sent_stocks, sent_prices, printed,
                   fetchVars>>

\* lines 355, 403
SyncCreatePrices ==
    /\ pc = "create_prices"
    /\ LET r == create_prices(watch_remnants, offer_ids)
       IN  /\ offer_ids' = r.offer_ids
           /\ IF r.raised # ""
              THEN Raises(r.raised) /\ prices' = prices
              ELSE /\ prices' = r.prices /\ pc' = "divide_prices"
                   /\ UNCHANGED <<raised, printed>>
    /\ UNCHANGED <<inputVars, watch_remnants, stocks, divideArgs, chunks, price, ret, k,
                   sent_stocks, sent_prices, not_empty, fetchVars>>

\* lines 356 (1000 a chunk), 404 (900 a chunk)
SyncDividePrices ==
    /\ pc = "divide_prices"
    /\ chunks' = divide(prices, IF entry = "main" THEN PriceChunkMain
                                ELSE PriceChunkUpload).chunks
    /\ k' = 0
    /\ pc' = "update_price"
    /\ UNCHANGED <<inputVars, raised, watch_remnants, offer_ids, stocks, prices,
                   divideArgs, price, ret, sent_stocks, sent_prices, printed, not_empty,
                   fetchVars>>

\* lines 357, 405
UpdatePriceReturns ==
    /\ pc = "update_price" /\ k < Len(chunks)
    /\ sent_prices' = Append(sent_prices, chunks[k + 1])
    /\ k' = k + 1
    /\ UNCHANGED <<inputVars, pc, raised, watch_remnants, offer_ids, stocks, prices,
                   divideArgs, chunks, price, ret, sent_stocks, printed, not_empty,
                   fetchVars>>

UpdatePriceRaises ==
    /\ pc = "update_price" /\ k < Len(chunks)
    /\ sent_prices' = Append(sent_prices, chunks[k + 1])
    /\ \E e \in TransportErrors : Raises(e)
    /\ UNCHANGED <<inputVars, watch_remnants, offer_ids, stocks, prices, divideArgs,
                   chunks, price, ret, k, sent_stocks, not_empty, fetchVars>>

\* lines 358 (upload_prices returns), 405 (main ends)
PricesLoopEnds ==
    /\ pc = "update_price" /\ k = Len(chunks)
    /\ pc' = "done"
    /\ UNCHANGED <<inputVars, raised, watch_remnants, offer_ids, stocks, prices,
                   divideArgs, chunks, price, ret, syncVars, fetchVars>>

NextSync ==
    \/ GetOfferIdsReturns \/ GetOfferIdsRaises
    \/ DownloadStockReturns \/ DownloadStockRaises
    \/ SyncCreateStocks \/ SyncDivideStocks
    \/ UpdateStocksReturns \/ UpdateStocksRaises \/ StocksLoopEnds
    \/ SyncCreatePrices \/ SyncDividePrices
    \/ UpdatePriceReturns \/ UpdatePriceRaises \/ PricesLoopEnds

SpecSync == InitSync /\ [][NextSync]_vars

(***************************************************************************)
(* get_offer_ids against a marketplace that holds the catalog, answers     *)
(* each request with the listings that follow the cursor (at least one     *)
(* while any is left, at most limit), reports the catalog's size as total  *)
(* and the offer_id of the page's last listing as last_id.                 *)
(***************************************************************************)
limit == 1000

ServerPosition(cursor) ==
    IF cursor = <<>> THEN 0 ELSE CHOOSE i \in 1..Len(catalog) : catalog[i] = cursor

PageSizes(cursor) ==
    LET rest == Len(catalog) - ServerPosition(cursor)
    IN  IF rest = 0 THEN {0} ELSE 1..Min(Min(MaxPage, limit), rest)

ServerPage(cursor, size) ==
    LET from == ServerPosition(cursor)
    IN  [items |-> [i \in 1..size |-> [offer_id |-> catalog[from + i]]],
         total |-> Len(catalog),
         last_id |-> IF size = 0 THEN cursor ELSE catalog[from + size]]

InitFetch ==
    /\ entry = "get_offer_ids" /\ pc = "request" /\ raised = ""
    /\ catalog \in {CatalogOf(size) : size \in 0..MaxCatalog}
    /\ last_id = <<>> /\ product_list = <<>>
    /\ requests = <<>> /\ replies = <<>>
    /\ ostatki = <<>> /\ watch_remnants = <<>> /\ offer_ids = <<>>
    /\ stocks = <<>> /\ prices = <<>> /\ chunks = <<>>
    /\ NoSync /\ NoDivide /\ NoPrice

\* lines 76-81 with the cursor left as it was
GetProductListReturnsKeepingCursor ==
    /\ pc = "request"
    /\ \E size \in PageSizes(last_id) :
          LET some_prod == ServerPage(last_id, size)
          IN  /\ requests' = Append(requests, last_id)
              /\ replies' = Append(replies, some_prod.last_id)
              /\ product_list' = product_list \o some_prod.items
              /\ last_id' = last_id
              /\ pc' = (IF some_prod.total = Len(product_list') THEN "collect"
                        ELSE "request")
    /\ UNCHANGED <<inputVars, raised, watch_remnants, offer_ids, stocks, prices,
                   divideArgs, chunks, price, ret, syncVars>>

\* lines 76-81: one pass of the loop, the request answered with a page
GetProductListReturns ==
    /\ pc = "request"
    /\ \E size \in PageSizes(last_id) :
          LET some_prod == ServerPage(last_id, size)
          IN  /\ requests' = Append(requests, last_id)
              /\ replies' = Append(replies, some_prod.last_id)
              /\ product_list' = product_list \o some_prod.items
              /\ last_id' = some_prod.last_id
              /\ pc' = (IF some_prod.total = Len(product_list') THEN "collect"
                        ELSE "request")
    /\ UNCHANGED <<inputVars, raised, watch_remnants, offer_ids, stocks, prices,
                   divideArgs, chunks, price, ret, syncVars>>

\* lines 76, 54-55: the request fails and the exception leaves get_offer_ids
GetProductListRaises ==
    /\ pc = "request"
    /\ requests' = Append(requests, last_id)
    /\ \E e \in TransportErrors : raised' = e
    /\ pc' = "done"
    /\ UNCHANGED <<inputVars, watch_remnants, offer_ids, stocks, prices, divideArgs,
                   chunks, price, ret, syncVars, last_id, product_list, replies>>

\* lines 82-85
ReturnOfferIds ==
    /\ pc = "collect"
    /\ offer_ids' = [i \in 1..Len(product_list) |-> product_list[i].offer_id]
    /\ pc' = "done"
    /\ UNCHANGED <<inputVars, raised, watch_remnants, stocks, prices, divideArgs,
                   chunks, price, ret, syncVars, fetchVars>>

NextFetch == GetProductListReturns \/ GetProductListRaises \/ ReturnOfferIds

SpecFetch == InitFetch /\ [][NextFetch]_vars

\* the interpreter runs the function on: a step that can be taken is taken
FairSpecFetch == SpecFetch /\ WF_vars(NextFetch)

(***************************************************************************)
(* Properties of the functions                                             *)
(***************************************************************************)
Count(list, P(_)) == Cardinality({i \in 1..Len(list) : P(list[i])})

RECURSIVE Concat(_)
Concat(lists) == IF lists = <<>> THEN <<>> ELSE Head(lists) \o Concat(Tail(lists))

\* C2: with distinct offer identifiers and quantities that are sentinels or parse,
\* the list create_stocks returns holds every original offer identifier exactly once
\* and no other offer_id
C2_EveryIdExactlyOnce ==
    Returned("create_stocks") =>
        /\ \A id \in Range(catalog) : Count(stocks, LAMBDA e : e.offer_id = id) = 1
        /\ \A i \in 1..Len(stocks) : stocks[i].offer_id \in Range(catalog)

\* a returned list for a file with a duplicated known code and an unknown code
C2_Witness ==
    /\ Returned("create_stocks")
    /\ Len(catalog) >= 2
    /\ \E i, j \in 1..Len(watch_remnants) :
          /\ i < j
          /\ str(watch_remnants[i].Code) = str(watch_remnants[j].Code)
          /\ str(watch_remnants[i].Code) \in Range(catalog)
    /\ \E i \in 1..Len(watch_remnants) : str(watch_remnants[i].Code) \notin Range(catalog)

\* C3: every entry create_stocks returns has a stock in 0..100
C3_StockInRange ==
    Returned("create_stocks") =>
        \A i \in 1..Len(stocks) : stocks[i].stock \in 0..100

\* C4: divide fails with an error for every chunk size n <= 0, for any list, and
\* yields no chunk
C4_NonPositiveSizeRaises ==
    (entry = "divide" /\ pc = "done" /\ n <= 0) =>
        (raised = "ValueError" /\ chunks = <<>>)

\* C5: for n > 0 the chunks of divide(lst, n), concatenated in order, are lst; every
\* chunk but the last has length n, the last has length len(lst) mod n, or n when
\* len(lst) is a non-zero multiple of n
C5_ChunksRebuildList ==
    (entry = "divide" /\ pc = "done" /\ n > 0) =>
        /\ raised = ""
        /\ Concat(chunks) = lst
        /\ \A i \in 1..(Len(chunks) - 1) : Len(chunks[i]) = n
        /\ (lst = <<>>) = (chunks = <<>>)
        /\ chunks # <<>> =>
              Len(chunks[Len(chunks)]) = (IF Len(lst) % n = 0 THEN n ELSE Len(lst) % n)

\* five elements in chunks of two: two full chunks and a last chunk of one
C5_Witness ==
    /\ entry = "divide" /\ pc = "done" /\ n = 2
    /\ Len(lst) = 5 /\ Len(chunks) = 3 /\ Len(chunks[3]) = 1

\* the records whose stringified code is in the marketplace's list, in file order
MatchedRecords ==
    SelectSeq(watch_remnants, LAMBDA w : str(w.Code) \in Range(catalog))

\* C8: create_prices leaves the list of offer identifiers unchanged and returns, in
\* file order, one entry for each record whose stringified code is in the list
C8_PricesOfMatchedRecords ==
    Returned("create_prices") =>
        /\ offer_ids = catalog
        /\ Len(prices) = Len(MatchedRecords)
        /\ \A i \in 1..Len(prices) :
              prices[i] = [offer_id |-> str(MatchedRecords[i].Code),
                           price |-> price_conversion(MatchedRecords[i].Price).value,
                           currency_code |-> "RUB",
                           old_price |-> "0",
                           auto_action_enabled |-> "UNKNOWN"]

\* a returned list for a file with a known code twice and an unknown code
C8_Witness ==
    /\ Returned("create_prices")
    /\ Len(prices) = 2 /\ Len(watch_remnants) = 3
    /\ prices[1].offer_id = prices[2].offer_id
    /\ prices[1].price # prices[2].price

\* the part of a string before its first "."
BeforeFirstDot(chars) ==
    LET dots == {i \in 1..Len(chars) : chars[i] = "."}
    IN  IF dots = {} THEN chars
        ELSE SubSeq(chars, 1, (CHOOSE i \in dots : \A j \in dots : i <= j) - 1)

\* C9: for a string, price_conversion returns the digits, in order, of the part
\* before the first "."; "13'899.99 rub." gives "13899", "1.234.567 rub." gives "1"
C9_DigitsBeforeFirstDot ==
    (entry = "price_conversion" /\ pc = "done" /\ price.t = "str") =>
        /\ raised = ""
        /\ ret = SelectSeq(BeforeFirstDot(price.s), IsDigit)
        /\ \A i \in 1..Len(ret) : IsDigit(ret[i])
        /\ price = Price13899 => ret = <<"1", "3", "8", "9", "9">>
        /\ price = Price5990 => ret = <<"5", "9", "9", "0">>
        /\ price = PriceDots => ret = <<"1">>

\* a conversion of a string with digits after its first "."
C9_Witness ==
    /\ entry = "price_conversion" /\ pc = "done"
    /\ price = Price13899 /\ ret = <<"1", "3", "8", "9", "9">>

\* the stock the rules give for a raw quantity
RuleStock(quantity) ==
    IF str(quantity) = <<">", "1", "0">> THEN 100
    ELSE IF str(quantity) = <<"1">> THEN 0
    ELSE int(quantity).value

\* the first record of each code of the marketplace's list, in file order
RECURSIVE FirstMatchesFrom(_)
FirstMatchesFrom(i) ==
    IF i > Len(watch_remnants) THEN <<>>
    ELSE LET code == str(watch_remnants[i].Code)
         IN  (IF /\ code \in Range(catalog)
                 /\ \A j \in 1..(i - 1) : str(watch_remnants[j].Code) # code
              THEN <<[offer_id |-> code,
                      stock |-> RuleStock(watch_remnants[i].Quantity)]>>
              ELSE <<>>)
             \o FirstMatchesFrom(i + 1)

\* the identifiers no record matches, in marketplace order
UnmatchedIds ==
    SelectSeq(catalog,
              LAMBDA id : \A i \in 1..Len(watch_remnants) :
                              str(watch_remnants[i].Code) # id)

\* C10: create_stocks returns the entries of the first record of each known code, in
\* file order, then a zero-stock entry for each unmatched identifier, in marketplace
\* order
C10_MatchedThenUnmatched ==
    Returned("create_stocks") =>
        stocks = FirstMatchesFrom(1)
                 \o [i \in 1..Len(UnmatchedIds) |->
                        [offer_id |-> UnmatchedIds[i], stock |-> 0]]

\* a returned list with a "1" record, a repeated code and two unmatched identifiers
C10_Witness ==
    /\ Returned("create_stocks")
    /\ Len(stocks) = 3 /\ Len(watch_remnants) = 3
    /\ watch_remnants[1].Quantity = PyStr(<<"1">>)
    /\ watch_remnants[2].Code = watch_remnants[1].Code
    /\ stocks[1].stock = 0
    /\ stocks[2].offer_id = catalog[1] /\ stocks[3].offer_id = catalog[3]


(***************************************************************************)
(* Properties of a sync run                                                *)
(***************************************************************************)
\* C1: when main ends without a caught exception, every record whose stringified
\* code is a fetched offer identifier has its price entry in a submitted
\* update_price request
C1_MainSubmitsEveryMatchedPrice ==
    (entry = "main" /\ pc = "done" /\ printed = <<>>) =>
        \A i \in 1..Len(watch_remnants) :
            str(watch_remnants[i].Code) \in Range(catalog) =>
                \E a \in 1..Len(sent_prices) : \E b \in 1..Len(sent_prices[a]) :
                    /\ sent_prices[a][b].offer_id = str(watch_remnants[i].Code)
                    /\ sent_prices[a][b].price
                           = price_conversion(watch_remnants[i].Price).value

IsPrefix(a, b) == Len(a) <= Len(b) /\ \A i \in 1..Len(a) : a[i] = b[i]

\* the stocks in consecutive groups of 100, the last one shorter
StocksInHundreds ==
    [j \in 1..((Len(stocks) + 99) \div 100) |->
        SubSeq(stocks, 100 * (j - 1) + 1, Min(100 * j, Len(stocks)))]

NoFailure == raised = "" /\ printed = <<>>
StockLoopOver ==
    pc \in {"create_prices", "divide_prices", "update_price", "done"}

C6_StockCalls ==
    entry \in {"upload_stocks", "main"} =>
        /\ IsPrefix(sent_stocks, StocksInHundreds)
        /\ \A i \in 1..Len(sent_stocks) : Len(sent_stocks[i]) <= 100
        /\ (StockLoopOver /\ NoFailure) =>
              /\ Len(sent_stocks) = (Len(stocks) + 99) \div 100
              /\ Len(stocks) = 150 =>
                    Len(sent_stocks[1]) = 100 /\ Len(sent_stocks[2]) = 50

\* C6: the update_stocks calls of a stock sync are, in order, a prefix of the stocks
\* in chunks of 100; without a failure there are ceil(len(stocks)/100) of them (150
\* entries: 100 and 50); after a failure no further chunk is sent
C6_StockChunksInOrderUntilFailure ==
    /\ []C6_StockCalls
    /\ [][~NoFailure => sent_stocks' = sent_stocks]_vars

\* upload_stocks returned after sending 150 entries in two calls
C6_Witness ==
    /\ entry = "upload_stocks" /\ pc = "done" /\ raised = ""
    /\ Len(stocks) = 150 /\ Len(sent_stocks) = 2
    /\ Len(not_empty) = 1

\* a stock sync stopped by the failure of the first of three calls
C6_WitnessFailure ==
    /\ entry = "main" /\ pc = "done" /\ printed = <<"connection">>
    /\ Len(chunks) = 3 /\ Len(sent_stocks) = 1


(***************************************************************************)
(* Properties of get_offer_ids                                             *)
(***************************************************************************)
C7_Paging ==
    entry = "get_offer_ids" =>
        /\ requests # <<>> => requests[1] = <<>>
        /\ \A i \in 2..Len(requests) : requests[i] = replies[i - 1]
        /\ (pc = "request" /\ requests # <<>>) => Len(product_list) # Len(catalog)
        /\ (pc = "collect" \/ (pc = "done" /\ raised = "")) =>
              Len(product_list) = Len(catalog)
        /\ (pc = "done" /\ raised = "") => offer_ids = catalog
        /\ raised # "" => (pc = "done" /\ offer_ids = <<>>)

=============================================================================
